---- MODULE Spec2Model ----
(***************************************************************************)
(* PointerSlotStorage<T, SIZE>: a fixed-size array of pointers with        *)
(* helpers to find, reserve and free slots                                  *)
(* (Code/Native/Source/LightSystem/PointerSlotStorage.h).                   *)
(*                                                                         *)
(* The container is used single-threaded, so every method is one atomic    *)
(* action, except find_consecutive_slots, whose two nested loops are       *)
(* modelled one iteration per step so that the indices it reads and the    *)
(* number of reads are visible.                                            *)
(*                                                                         *)
(* nassertv(cond) is Panda3D's assertion macro: when cond is false it      *)
(* reports an assertion failure and returns from the enclosing method.     *)
(* size_t arithmetic is 64 bit wide; all indices used here are far below   *)
(* the wrap-around, so plain integers are used.                            *)
(***************************************************************************)
EXTENDS Integers, Naturals, Sequences, FiniteSets, TLC

\* Template parameter SIZE of the storage.
SIZE == 4
\* Number of distinct non-null pointer values handed to reserve_slot.
NumPtrs == 2
\* How many slots past the end of the array a scan may read as non-null
\* before the memory behind the array yields a null or a fault.
MaxOverrun == 2

NULL == 0
\* Value of out_slot when a method stored nothing into its output.
NotWritten == -1
Ptr == 0..NumPtrs
Index == 0..(SIZE - 1)
\* Arguments callers pass: slots include the index just past the end, counts
\* include zero and counts larger than the storage.
SlotArgs == 0..SIZE
NumArgs == 0..(SIZE + 1)

VARIABLES
    _data,        \* array<T, SIZE>
    _max_index,   \* size_t
    pc,           \* "idle", or the position inside find_consecutive_slots
    i, k, any_taken,   \* locals of find_consecutive_slots
    reads,        \* indices of _data read by the running/last find_consecutive_slots
    op,           \* last method called
    arg_slot, arg_ptr, arg_num,   \* its arguments
    status,       \* its outcome: "ok", "assert", "true", "false", "fault", "running"
    out_slot,     \* the caller's size_t &slot output variable / returned index
    out_seq,      \* elements produced by the last begin()..end() iteration
    old_data, old_max_index,   \* _data and _max_index as the last call found them
    max_reserved,  \* highest slot a reserve_slot call has stored into, or NotWritten
    prev_reserved  \* after free_slot: the slot the call right before it
                   \* reserved successfully, else NotWritten

vars == <<_data, _max_index, pc, i, k, any_taken, reads, op, arg_slot,
          arg_ptr, arg_num, status, out_slot, out_seq, old_data,
          old_max_index, max_reserved, prev_reserved>>

history == <<old_data, old_max_index, max_reserved, prev_reserved>>

locals == <<i, k, any_taken, reads>>

----------------------------------------------------------------------------
\* Constructor that forgets _data.fill(NULL): the slots hold whatever the
\* memory held.
Init_unfilled ==
    /\ _data \in [Index -> Ptr]
    /\ _max_index = 0
    /\ pc = "idle"
    /\ i = 0 /\ k = 0 /\ any_taken = FALSE /\ reads = <<>>
    /\ op = "PointerSlotStorage"
    /\ arg_slot = 0 /\ arg_ptr = NULL /\ arg_num = 0
    /\ status = "ok"
    /\ out_slot = NotWritten
    /\ out_seq = <<>>
    /\ old_data = [j \in Index |-> NULL]
    /\ old_max_index = 0
    /\ max_reserved = NotWritten
    /\ prev_reserved = NotWritten

\* Constructor that starts the maximum index at SIZE.
Init_max_at_size ==
    /\ _data = [j \in Index |-> NULL]
    /\ _max_index = SIZE
    /\ pc = "idle"
    /\ i = 0 /\ k = 0 /\ any_taken = FALSE /\ reads = <<>>
    /\ op = "PointerSlotStorage"
    /\ arg_slot = 0 /\ arg_ptr = NULL /\ arg_num = 0
    /\ status = "ok"
    /\ out_slot = NotWritten
    /\ out_seq = <<>>
    /\ old_data = [j \in Index |-> NULL]
    /\ old_max_index = 0
    /\ max_reserved = NotWritten
    /\ prev_reserved = NotWritten

\* Constructor: _data.fill(NULL); _max_index = 0.
Init ==
    /\ _data = [j \in Index |-> NULL]
    /\ _max_index = 0
    /\ pc = "idle"
    /\ i = 0 /\ k = 0 /\ any_taken = FALSE /\ reads = <<>>
    /\ op = "PointerSlotStorage"
    /\ arg_slot = 0 /\ arg_ptr = NULL /\ arg_num = 0
    /\ status = "ok"
    /\ out_slot = NotWritten
    /\ out_seq = <<>>
    /\ old_data = [j \in Index |-> NULL]
    /\ old_max_index = 0
    /\ max_reserved = NotWritten
    /\ prev_reserved = NotWritten

\* size_t get_max_index() const { return _max_index; }
get_max_index == _max_index

\* find_slot with the loop bound off by one (i < SIZE - 1).
RECURSIVE find_slot_short(_, _)
find_slot_short(d, j) ==
    IF j < SIZE - 1
    THEN IF d[j] = NULL
         THEN [found |-> TRUE, slot |-> j]
         ELSE find_slot_short(d, j + 1)
    ELSE [found |-> FALSE, slot |-> -1]

\* bool find_slot(size_t &slot) const: the for loop from index j on.
RECURSIVE find_slot(_, _)
find_slot(d, j) ==
    IF j < SIZE
    THEN IF d[j] = NULL
         THEN [found |-> TRUE, slot |-> j]
         ELSE find_slot(d, j + 1)
    ELSE [found |-> FALSE, slot |-> -1]

\* free_slot without the "slot was already empty" assertion.
free_slot_unchecked(d, slot) ==
    IF ~(slot >= 0 /\ slot < SIZE) THEN [data |-> d, failed |-> TRUE]
    ELSE [data |-> [d EXCEPT ![slot] = NULL], failed |-> FALSE]

\* free_slot that clears the whole array (_data.fill(NULL)).
free_slot_clear_all(d, slot) ==
    IF ~(slot >= 0 /\ slot < SIZE) THEN [data |-> d, failed |-> TRUE]
    ELSE IF ~(d[slot] # NULL) THEN [data |-> d, failed |-> TRUE]
    ELSE [data |-> [j \in Index |-> NULL], failed |-> FALSE]

\* free_slot with the emptiness assertion inverted.
free_slot_inverted(d, slot) ==
    IF ~(slot >= 0 /\ slot < SIZE) THEN [data |-> d, failed |-> TRUE]
    ELSE IF ~(d[slot] = NULL) THEN [data |-> d, failed |-> TRUE]
    ELSE [data |-> [d EXCEPT ![slot] = NULL], failed |-> FALSE]

\* void free_slot(size_t slot): the resulting array and whether an
\* nassertv fired (the method then returns without writing).
free_slot(d, slot) ==
    IF ~(slot >= 0 /\ slot < SIZE) THEN [data |-> d, failed |-> TRUE]
    ELSE IF ~(d[slot] # NULL) THEN [data |-> d, failed |-> TRUE]
    ELSE [data |-> [d EXCEPT ![slot] = NULL], failed |-> FALSE]

\* free_consecutive_slots that validates the whole range before freeing
\* anything (all or nothing).
free_consecutive_slots_atomic(d, j, last, failed) ==
    IF \A n \in j..(last - 1) : n \in Index /\ d[n] # NULL
    THEN [data |-> [n \in Index |-> IF n >= j /\ n < last THEN NULL ELSE d[n]],
          failed |-> failed]
    ELSE [data |-> d, failed |-> TRUE]

\* free_consecutive_slots with an inclusive loop bound (i <= slot + num).
RECURSIVE free_consecutive_slots_inclusive(_, _, _, _)
free_consecutive_slots_inclusive(d, j, last, failed) ==
    IF j <= last
    THEN LET r == free_slot(d, j)
         IN  free_consecutive_slots_inclusive(r.data, j + 1, last,
                                              failed \/ r.failed)
    ELSE [data |-> d, failed |-> failed]

\* void free_consecutive_slots(size_t slot, size_t num_consecutive):
\* for (i = slot; i < slot + num_consecutive; ++i) free_slot(i);
\* j is the loop variable, last is slot + num_consecutive.
RECURSIVE free_consecutive_slots(_, _, _, _)
free_consecutive_slots(d, j, last, failed) ==
    IF j < last
    THEN LET r == free_slot(d, j)
         IN  free_consecutive_slots(r.data, j + 1, last, failed \/ r.failed)
    ELSE [data |-> d, failed |-> failed]

\* reserve_slot without the "slot already taken" assertion.
reserve_slot_overwrite(d, slot, ptr) ==
    IF ~(slot >= 0 /\ slot < SIZE) THEN [data |-> d, failed |-> TRUE]
    ELSE IF ~(ptr # NULL) THEN [data |-> d, failed |-> TRUE]
    ELSE [data |-> [d EXCEPT ![slot] = ptr], failed |-> FALSE]

\* void reserve_slot(size_t slot, T ptr). _max_index is not written.
reserve_slot(d, slot, ptr) ==
    IF ~(slot >= 0 /\ slot < SIZE) THEN [data |-> d, failed |-> TRUE]
    ELSE IF ~(d[slot] = NULL) THEN [data |-> d, failed |-> TRUE]
    ELSE IF ~(ptr # NULL) THEN [data |-> d, failed |-> TRUE]
    ELSE [data |-> [d EXCEPT ![slot] = ptr], failed |-> FALSE]

\* begin() is _data.begin(); end() is _data.begin() advanced by _max_index.
begin == 0
end == begin + _max_index

\* The elements a loop from begin() to end() visits, with their positions.
Iterate(d) == [n \in 1..(end - begin) |-> <<begin + n - 1, d[begin + n - 1]>>]

----------------------------------------------------------------------------
\* Atomic method calls.  Each call records the method, its arguments
\* (0 for arguments the method does not take) and its outcome; out_slot is
\* NotWritten unless the method stored into its output or returned an index.

Called(o, slot, ptr, num) ==
    /\ op' = o
    /\ arg_slot' = slot
    /\ arg_ptr' = ptr
    /\ arg_num' = num
    /\ old_data' = _data
    /\ old_max_index' = _max_index
    /\ prev_reserved' = IF o = "free_slot" /\ op = "reserve_slot" /\ status = "ok"
                        THEN arg_slot ELSE NotWritten

NoScan ==
    /\ i' = 0 /\ k' = 0 /\ any_taken' = FALSE /\ reads' = <<>>
    /\ pc' = "idle"

do_get_max_index ==
    /\ pc = "idle"
    /\ Called("get_max_index", 0, NULL, 0)
    /\ out_slot' = get_max_index
    /\ status' = "ok"
    /\ out_seq' = <<>>
    /\ NoScan
    /\ UNCHANGED <<_data, _max_index, max_reserved>>

do_find_slot ==
    /\ pc = "idle"
    /\ Called("find_slot", 0, NULL, 0)
    /\ LET r == find_slot(_data, 0)
       IN  /\ status' = IF r.found THEN "true" ELSE "false"
           /\ out_slot' = IF r.found THEN r.slot ELSE NotWritten
    /\ out_seq' = <<>>
    /\ NoScan
    /\ UNCHANGED <<_data, _max_index, max_reserved>>

do_free_slot(slot) ==
    /\ pc = "idle"
    /\ Called("free_slot", slot, NULL, 0)
    /\ LET r == free_slot(_data, slot)
       IN  /\ _data' = r.data
           /\ status' = IF r.failed THEN "assert" ELSE "ok"
    /\ out_slot' = NotWritten
    /\ out_seq' = <<>>
    /\ NoScan
    /\ UNCHANGED <<_max_index, max_reserved>>

do_free_consecutive_slots(slot, num) ==
    /\ pc = "idle"
    /\ Called("free_consecutive_slots", slot, NULL, num)
    /\ LET r == free_consecutive_slots(_data, slot, slot + num, FALSE)
       IN  /\ _data' = r.data
           /\ status' = IF r.failed THEN "assert" ELSE "ok"
    /\ out_slot' = NotWritten
    /\ out_seq' = <<>>
    /\ NoScan
    /\ UNCHANGED <<_max_index, max_reserved>>

do_reserve_slot(slot, ptr) ==
    /\ pc = "idle"
    /\ Called("reserve_slot", slot, ptr, 0)
    /\ LET r == reserve_slot(_data, slot, ptr)
       IN  /\ _data' = r.data
           /\ status' = IF r.failed THEN "assert" ELSE "ok"
           /\ max_reserved' = IF ~r.failed /\ slot > max_reserved
                               THEN slot ELSE max_reserved
    /\ out_slot' = NotWritten
    /\ out_seq' = <<>>
    /\ NoScan
    /\ UNCHANGED _max_index

do_iterate ==
    /\ pc = "idle"
    /\ Called("iterate", 0, NULL, 0)
    /\ out_seq' = Iterate(_data)
    /\ status' = "ok"
    /\ out_slot' = NotWritten
    /\ NoScan
    /\ UNCHANGED <<_data, _max_index, max_reserved>>

----------------------------------------------------------------------------
\* bool find_consecutive_slots(size_t &slot, size_t num_consecutive) const

\* Entry with an assertion on num_consecutive > 0 in front of the loops.
fcs_call_checked(num) ==
    /\ pc = "idle"
    /\ Called("find_consecutive_slots", 0, NULL, num)
    /\ status' = IF num = 0 THEN "assert" ELSE "running"
    /\ out_slot' = NotWritten
    /\ out_seq' = <<>>
    /\ i' = 0 /\ k' = 0 /\ any_taken' = FALSE /\ reads' = <<>>
    /\ pc' = IF num = 0 THEN "idle" ELSE "outer"
    /\ UNCHANGED <<_data, _max_index, max_reserved>>

\* Entry: for (size_t i = 0; ...
fcs_call(num) ==
    /\ pc = "idle"
    /\ Called("find_consecutive_slots", 0, NULL, num)
    /\ status' = "running"
    /\ out_slot' = NotWritten
    /\ out_seq' = <<>>
    /\ i' = 0 /\ k' = 0 /\ any_taken' = FALSE /\ reads' = <<>>
    /\ pc' = "outer"
    /\ UNCHANGED <<_data, _max_index, max_reserved>>

\* Outer loop test i < SIZE holds: any_taken = false; k = 0.
fcs_outer_enter ==
    /\ pc = "outer"
    /\ i < SIZE
    /\ any_taken' = FALSE
    /\ k' = 0
    /\ pc' = "inner"
    /\ UNCHANGED <<_data, _max_index, history, i, reads, op, arg_slot, arg_ptr, arg_num,
                   status, out_slot, out_seq>>

\* Outer loop test fails: return false; slot is left as it was.
fcs_return_false ==
    /\ pc = "outer"
    /\ ~(i < SIZE)
    /\ status' = "false"
    /\ pc' = "idle"
    /\ UNCHANGED <<_data, _max_index, history, locals, op, arg_slot, arg_ptr, arg_num,
                   out_slot, out_seq>>

\* The inner statement with = for ==: any_taken = _data[i + k] = NULL.
fcs_inner_read_assign ==
    /\ pc = "inner"
    /\ ~any_taken /\ k < arg_num
    /\ i + k < SIZE
    /\ _data' = [_data EXCEPT ![i + k] = NULL]
    /\ any_taken' = FALSE
    /\ reads' = Append(reads, i + k)
    /\ i' = i + 1
    /\ UNCHANGED <<_max_index, history, pc, k, op, arg_slot, arg_ptr, arg_num,
                   status, out_slot, out_seq>>

\* Inner loop test !any_taken && k < num_consecutive holds and i + k is
\* inside the array: any_taken = _data[i + k] == NULL; ++i.
fcs_inner_read ==
    /\ pc = "inner"
    /\ ~any_taken /\ k < arg_num
    /\ i + k < SIZE
    /\ any_taken' = (_data[i + k] = NULL)
    /\ reads' = Append(reads, i + k)
    /\ i' = i + 1
    /\ UNCHANGED <<_data, _max_index, history, pc, k, op, arg_slot, arg_ptr, arg_num,
                   status, out_slot, out_seq>>

\* Same statement with i + k past the end of the array: the read is
\* undefined behaviour and yields whatever lies behind _data, a null or a
\* non-null word.
fcs_inner_read_past_end ==
    /\ pc = "inner"
    /\ ~any_taken /\ k < arg_num
    /\ ~(i + k < SIZE)
    /\ \E v \in Ptr :
          /\ (v # NULL) => (i + k < SIZE + MaxOverrun)
          /\ any_taken' = (v = NULL)
    /\ reads' = Append(reads, i + k)
    /\ i' = i + 1
    /\ UNCHANGED <<_data, _max_index, history, pc, k, op, arg_slot, arg_ptr, arg_num,
                   status, out_slot, out_seq>>

\* ... or the read touches an unmapped address and the process faults.
fcs_inner_fault ==
    /\ pc = "inner"
    /\ ~any_taken /\ k < arg_num
    /\ ~(i + k < SIZE)
    /\ reads' = Append(reads, i + k)
    /\ status' = "fault"
    /\ pc' = "idle"
    /\ UNCHANGED <<_data, _max_index, history, i, k, any_taken, op, arg_slot, arg_ptr,
                   arg_num, out_slot, out_seq>>

\* Inner loop test fails.
fcs_inner_exit ==
    /\ pc = "inner"
    /\ ~(~any_taken /\ k < arg_num)
    /\ pc' = "check"
    /\ UNCHANGED <<_data, _max_index, history, locals, op, arg_slot, arg_ptr, arg_num,
                   status, out_slot, out_seq>>

\* if (!any_taken) { slot = i; return true; }
fcs_return_true ==
    /\ pc = "check"
    /\ ~any_taken
    /\ out_slot' = i
    /\ status' = "true"
    /\ pc' = "idle"
    /\ UNCHANGED <<_data, _max_index, history, locals, op, arg_slot, arg_ptr, arg_num, out_seq>>

\* any_taken is set: next round of the outer loop, ++i.
fcs_outer_next ==
    /\ pc = "check"
    /\ any_taken
    /\ i' = i + 1
    /\ pc' = "outer"
    /\ UNCHANGED <<_data, _max_index, history, k, any_taken, reads, op, arg_slot, arg_ptr,
                   arg_num, status, out_slot, out_seq>>

----------------------------------------------------------------------------
Next ==
    \/ do_get_max_index
    \/ do_find_slot
    \/ \E slot \in SlotArgs : do_free_slot(slot)
    \/ \E slot \in SlotArgs, num \in NumArgs : do_free_consecutive_slots(slot, num)
    \/ \E slot \in SlotArgs, ptr \in Ptr : do_reserve_slot(slot, ptr)
    \/ do_iterate
    \/ \E num \in NumArgs : fcs_call(num)
    \/ fcs_outer_enter
    \/ fcs_return_false
    \/ fcs_inner_read
    \/ fcs_inner_read_past_end
    \/ fcs_inner_fault
    \/ fcs_inner_exit
    \/ fcs_return_true
    \/ fcs_outer_next

Spec == Init /\ [][Next]_vars

TypeOK ==
    /\ _data \in [Index -> Ptr]
    /\ _max_index \in Nat
    /\ pc \in {"idle", "outer", "inner", "check"}
    /\ i \in Nat /\ k \in Nat /\ any_taken \in BOOLEAN
    /\ status \in {"ok", "assert", "true", "false", "fault", "running"}

----------------------------------------------------------------------------
\* Vocabulary of the properties.

Occupied(d) == {j \in Index : d[j] # NULL}
Empty(d) == Index \ Occupied(d)
Min(S) == CHOOSE x \in S : \A y \in S : x <= y
Max2(a, b) == IF a >= b THEN a ELSE b

\* s .. s+n-1 lie inside the array and are all empty.
IsFreeRun(d, s, n) == s + n <= SIZE /\ \A j \in s..(s + n - 1) : d[j] = NULL
FreeRunStarts(d, n) == {s \in Index : IsFreeRun(d, s, n)}

\* (index, pointer) pairs of the occupied slots up to hi, ascending.
OccupiedPairs(d, hi) ==
    SelectSeq([n \in 1..SIZE |-> <<n - 1, d[n - 1]>>],
              LAMBDA p : p[2] # NULL /\ p[1] <= hi)

\* free_slot called on j, j+1, ..., n calls in all.
RECURSIVE FreeEach(_, _, _)
FreeEach(d, j, n) ==
    IF n = 0 THEN d ELSE FreeEach(free_slot(d, j).data, j + 1, n - 1)

\* find_consecutive_slots has finished (returned or faulted).
FcsDone == op = "find_consecutive_slots" /\ pc = "idle"

----------------------------------------------------------------------------
\* C1: in every reachable state every slot whose index is greater than
\* get_max_index() is empty.
C1_SlotsAboveMaxIndexEmpty ==
    \A j \in Index : j > get_max_index => _data[j] = NULL

\* C2: for 1 <= num_consecutive <= SIZE, when a run of num_consecutive empty
\* slots exists inside the array, find_consecutive_slots returns true and
\* stores the lowest start of such a run.
C2_LowestFreeRunFound ==
    (FcsDone /\ arg_num >= 1 /\ arg_num <= SIZE
        /\ FreeRunStarts(_data, arg_num) # {})
    => (status = "true" /\ out_slot = Min(FreeRunStarts(_data, arg_num)))

\* C3: for num_consecutive >= 1, when no run of num_consecutive empty slots
\* exists inside the array (also when num_consecutive > SIZE or the storage
\* is full), find_consecutive_slots returns false.
C3_NoFreeRunReturnsFalse ==
    (FcsDone /\ arg_num >= 1 /\ FreeRunStarts(_data, arg_num) = {})
    => status = "false"

\* C4: find_slot returns the lowest index whose slot is empty, and returns
\* false exactly when every slot is occupied.
C4_FindSlotLowestEmpty ==
    op = "find_slot" =>
        IF Empty(_data) = {}
        THEN status = "false"
        ELSE status = "true" /\ out_slot = Min(Empty(_data))

C4_Witness ==
    /\ op = "find_slot"
    /\ Empty(_data) = {1, 3}
    /\ status = "true"
    /\ out_slot = 1

\* C5: reserve_slot on an in-range empty slot with a non-null pointer stores
\* the pointer there, leaves every other slot alone and sets the maximum
\* index to max(previous maximum index, slot).
C5_ReserveStoresAndRaisesMaxIndex ==
    [][(pc = "idle" /\ op' = "reserve_slot" /\ arg_slot' \in Index
          /\ arg_ptr' # NULL /\ _data[arg_slot'] = NULL)
       => (/\ _data' = [_data EXCEPT ![arg_slot'] = arg_ptr']
           /\ _max_index' = Max2(_max_index, arg_slot'))]_vars

\* C6: iterating from begin() to end() yields exactly the occupied slots with
\* index <= the maximum index, in ascending order, and these are all the
\* occupied slots of the storage.
C6_IterationYieldsOccupied ==
    op = "iterate" =>
        /\ out_seq = OccupiedPairs(_data, _max_index)
        /\ Len(out_seq) = Cardinality(Occupied(_data))

\* C7: reserve_slot is rejected with an assertion whenever the slot is
\* already occupied, the pointer is null or the slot is out of range, and
\* the rejected call changes neither a slot nor the maximum index.
C7_ReserveRejected ==
    [][(pc = "idle" /\ op' = "reserve_slot"
          /\ (arg_slot' \notin Index \/ arg_ptr' = NULL
                \/ _data[arg_slot'] # NULL))
       => (/\ status' = "assert"
           /\ _data' = _data
           /\ _max_index' = _max_index)]_vars

C7_Witness ==
    /\ op = "reserve_slot"
    /\ status = "assert"
    /\ arg_slot \in Index
    /\ arg_ptr # NULL
    /\ _data[arg_slot] # NULL
    /\ _data[arg_slot] # arg_ptr

\* C8: free_slot is rejected with an assertion whenever the slot is already
\* empty or out of range, and the rejected call changes neither a slot nor
\* the maximum index.
C8_FreeRejected ==
    [][(pc = "idle" /\ op' = "free_slot"
          /\ (arg_slot' \notin Index \/ _data[arg_slot'] = NULL))
       => (/\ status' = "assert"
           /\ _data' = _data
           /\ _max_index' = _max_index)]_vars

C8_Witness ==
    /\ op = "free_slot"
    /\ status = "assert"
    /\ arg_slot \in Index
    /\ _data[arg_slot] = NULL
    /\ Occupied(_data) # {}

\* C9: free_slot on an in-range occupied slot empties that slot, leaves every
\* other slot alone and leaves the maximum index alone.
C9_FreeEmptiesOnlyThatSlot ==
    [][(pc = "idle" /\ op' = "free_slot" /\ arg_slot' \in Index
          /\ _data[arg_slot'] # NULL)
       => (/\ status' = "ok"
           /\ _data' = [_data EXCEPT ![arg_slot'] = NULL]
           /\ _max_index' = _max_index)]_vars

C9_Witness ==
    /\ op = "free_slot"
    /\ status = "ok"
    /\ _data[arg_slot] = NULL
    /\ Occupied(_data) # {}

\* C10: free_consecutive_slots(slot, num) ends in the state that calling
\* free_slot on slot, slot+1, ..., slot+num-1 in ascending order ends in;
\* when all those slots are in range and occupied, exactly they become empty
\* and all other slots are unchanged.
C10_FreeRunIsFreeEach ==
    [][(pc = "idle" /\ op' = "free_consecutive_slots")
       => LET run == arg_slot'..(arg_slot' + arg_num' - 1)
          IN  /\ _data' = FreeEach(_data, arg_slot', arg_num')
              /\ _max_index' = _max_index
              /\ (run \subseteq Occupied(_data))
                   => _data' = [j \in Index |->
                                  IF j \in run THEN NULL ELSE _data[j]]]_vars

C10_Witness ==
    /\ op = "free_consecutive_slots"
    /\ status = "ok"
    /\ arg_num >= 2
    /\ \A j \in arg_slot..(arg_slot + arg_num - 1) : _data[j] = NULL
    /\ Occupied(_data) # {}

\* C11: for an empty in-range slot and a non-null pointer, reserve_slot
\* followed by free_slot of the same slot leaves every slot as it was before
\* the reserve_slot, and the maximum index is then not below its value
\* before the reserve_slot.
C11_ReserveFreeRoundTrip ==
    [][(/\ pc = "idle" /\ op = "reserve_slot"
        /\ arg_slot \in Index /\ arg_ptr # NULL /\ old_data[arg_slot] = NULL
        /\ op' = "free_slot" /\ arg_slot' = arg_slot)
       => (/\ _data' = old_data
           /\ _max_index' >= old_max_index)]_vars

C11_Witness ==
    /\ op = "free_slot"
    /\ status = "ok"
    /\ prev_reserved = arg_slot
    /\ old_data[arg_slot] # NULL
    /\ _data[arg_slot] = NULL
    /\ Occupied(_data) # {}

\* C12: once slot k has been reserved successfully, get_max_index() is >= k
\* in every later state, whatever calls follow, and the maximum index never
\* decreases.
C12_MaxIndexCoversReserved ==
    [][/\ _max_index' >= _max_index
       /\ (max_reserved' # NotWritten => _max_index' >= max_reserved')]_vars

C14_FreeRunNoRollback ==
    [][(pc = "idle" /\ op' = "free_consecutive_slots")
       => LET run == arg_slot'..(arg_slot' + arg_num' - 1)
              bad == {j \in run : j \notin Index \/ _data[j] = NULL}
          IN  bad # {}
              => /\ status' = "assert"
                 /\ \A j \in run : j < Min(bad) => _data'[j] = NULL]_vars

C14_Witness ==
    /\ op = "free_consecutive_slots"
    /\ status = "assert"
    /\ arg_num >= 2
    /\ arg_slot \in Index
    /\ old_data[arg_slot] # NULL
    /\ _data[arg_slot] = NULL
    /\ \E j \in (arg_slot + 1)..(arg_slot + arg_num - 1) :
          j \notin Index \/ old_data[j] = NULL

\* C15: whenever a slot is occupied, get_max_index() is the greatest index
\* of an occupied slot.
C15_MaxIndexIsGreatestOccupied ==
    Occupied(_data) # {}
    => get_max_index = CHOOSE j \in Occupied(_data) :
                          \A n \in Occupied(_data) : n <= j

\* C16: in every reachable state, rejected calls included,
\* 0 <= maximum index < SIZE.
C16_MaxIndexInRange ==
    0 <= _max_index /\ _max_index < SIZE

C16_Witness ==
    /\ op = "reserve_slot"
    /\ status = "assert"
    /\ arg_slot = SIZE
    /\ Occupied(_data) # {}
    /\ _max_index < SIZE

\* C17: right after construction every slot is empty and the maximum index
\* is 0.
C17_ConstructedEmpty ==
    op = "PointerSlotStorage"
    => ((\A j \in Index : _data[j] = NULL) /\ _max_index = 0)

C17_Witness ==
    /\ op = "PointerSlotStorage"
    /\ pc = "idle"
    /\ Occupied(_data) = {}

\* C18: find_slot, find_consecutive_slots, get_max_index and iteration
\* change neither a slot nor the maximum index, whatever they return.
C18_QueriesReadOnly ==
    [][(op' \in {"find_slot", "find_consecutive_slots", "get_max_index",
                 "iterate"})
       => (_data' = _data /\ _max_index' = _max_index)]_vars

C18_Witness ==
    /\ FcsDone
    /\ arg_num >= 1
    /\ status = "false"
    /\ Len(reads) >= 2
    /\ Occupied(_data) # {}
    /\ _data = old_data

\* C19: for num_consecutive >= 1, find_consecutive_slots examines at most
\* SIZE * num_consecutive slots and ends by returning true or false.
C19_ScanBounded ==
    (op = "find_consecutive_slots" /\ arg_num >= 1)
    => /\ Len(reads) <= SIZE * arg_num
       /\ pc = "idle" => status \in {"true", "false"}

\* C20: for num_consecutive >= 1, every index find_consecutive_slots reads
\* lies inside the array.
C20_ReadsInBounds ==
    (op = "find_consecutive_slots" /\ arg_num >= 1)
    => \A n \in 1..Len(reads) : reads[n] \in Index

====
